---- MODULE Spec2Model ----
(***************************************************************************)
(* Model of the game-thinking MCP server: the thought tracker              *)
(* (GameThinkingServer in index.js, GameDesignThinkingServer in index.ts)  *)
(* and the CallToolRequestSchema handler that dispatches to it.            *)
(***************************************************************************)
EXTENDS Integers, Sequences, FiniteSets, TLC

VARIABLES impl, thoughtHistory, branches, request, result, stderr, accepted,
          successes, pending

vars == <<impl, thoughtHistory, branches, request, result, stderr, accepted,
         successes, pending>>

\* Longest history the model explores.
MaxHistory == 2

\* Most invocations waiting at the transport at once.
MaxPending == 2

-----------------------------------------------------------------------------
(* JavaScript values.  Every value is a record of the same shape so that any *)
(* two values can be compared: t is the kind, n / s / b carry the payload.   *)

Undefined == [t |-> "undefined", n |-> 0, s |-> "", b |-> FALSE]
Null      == [t |-> "null", n |-> 0, s |-> "", b |-> FALSE]
NaN       == [t |-> "nan", n |-> 0, s |-> "", b |-> FALSE]
Num(k)    == [t |-> "number", n |-> k, s |-> "", b |-> FALSE]
Str(x)    == [t |-> "string", n |-> 0, s |-> x, b |-> FALSE]
Bool(x)   == [t |-> "boolean", n |-> 0, s |-> "", b |-> x]

\* typeof v
Typeof(v) ==
  CASE v.t = "nan" -> "number"
    [] v.t = "null" -> "object"
    [] OTHER -> v.t

\* ToBoolean(v): what `!v` and `if (v)` test
Truthy(v) ==
  CASE v.t = "boolean" -> v.b
    [] v.t = "number" -> v.n # 0
    [] v.t = "string" -> v.s # ""
    [] v.t = "object" -> TRUE
    [] OTHER -> FALSE

\* Number::toString for the integers the model submits as property keys
NumberToString(k) ==
  LET Digit(d) == CASE d = 0 -> "0" [] d = 1 -> "1" [] d = 2 -> "2" [] d = 3 -> "3"
                    [] d = 4 -> "4" [] d = 5 -> "5" [] d = 6 -> "6" [] d = 7 -> "7"
                    [] d = 8 -> "8" [] OTHER -> "9"
      Abs == IF k < 0 THEN -k ELSE k
      Body == IF Abs < 10 THEN Digit(Abs) ELSE Digit(Abs \div 10) \o Digit(Abs % 10)
  IN IF k < 0 THEN "-" \o Body ELSE Body

\* ToPropertyKey(v): the string a value becomes when used as branches[v]
ToPropertyKey(v) ==
  CASE v.t = "string" -> v.s
    [] v.t = "number" -> NumberToString(v.n)
    [] v.t = "nan" -> "NaN"
    [] v.t = "boolean" -> IF v.b THEN "true" ELSE "false"
    [] v.t = "null" -> "null"
    [] v.t = "object" -> "[object Object]"
    [] OTHER -> "undefined"

-----------------------------------------------------------------------------
(* The two entry files.  They differ in the tool name, in one message text,  *)
(* in the optional tags carried and in the formatter's labels.               *)

Impls == {"index.js", "index.ts"}

ToolName(i) == IF i = "index.ts" THEN "gamedesignthinking" ELSE "gamethinking"

MsgThought(i) ==
  IF i = "index.ts"
  THEN "Invalid thought: must be a string describing game design decision"
  ELSE "Invalid thought: must be a string"
MsgThoughtNumber == "Invalid thoughtNumber: must be a number"
MsgTotalThoughts == "Invalid totalThoughts: must be a number"
MsgNextThoughtNeeded == "Invalid nextThoughtNeeded: must be a boolean"

\* TypeError texts of the runtime (node 18)
MsgReadOfUndefined == "Cannot read properties of undefined (reading 'thought')"
MsgReadOfNull == "Cannot read properties of null (reading 'thought')"
MsgPushNotFunction == "this.branches[validatedInput.branchId].push is not a function"

-----------------------------------------------------------------------------
(* Raw inputs: request.params.arguments.  t is the kind of the arguments     *)
(* value; an object carries the fields, every other kind carries none.       *)

FieldNames == {"thought", "thoughtNumber", "totalThoughts", "nextThoughtNeeded",
               "isRevision", "revisesThought", "branchFromThought", "branchId",
               "needsMoreThoughts", "gameComponent", "libraryUsed"}

NoFields == [f \in FieldNames |-> Undefined]

Obj(fields) == [t |-> "object", f |-> fields]
NonObj(kind) == [t |-> kind, f |-> NoFields]

\* the optional part of a payload
Opt(rev, revises, from, id, more, comp, lib) ==
  [isRevision |-> rev, revisesThought |-> revises, branchFromThought |-> from,
   branchId |-> id, needsMoreThoughts |-> more, gameComponent |-> comp,
   libraryUsed |-> lib]

NoOpt == Opt(Undefined, Undefined, Undefined, Undefined, Undefined, Undefined, Undefined)

Payload(th, tn, tt, ntn, o) ==
  Obj([f \in FieldNames |->
        CASE f = "thought" -> th
          [] f = "thoughtNumber" -> tn
          [] f = "totalThoughts" -> tt
          [] f = "nextThoughtNeeded" -> ntn
          [] OTHER -> o[f]])

\* data.<name>: a property read.  Reading a property of undefined or null
\* throws; a primitive has none of these properties.
CanRead(input) == input.t \notin {"undefined", "null"}
Get(input, name) == IF input.t = "object" THEN input.f[name] ELSE Undefined

-----------------------------------------------------------------------------
(* validateGameThoughtData                                                   *)

\* The record validateGameThoughtData returns.  index.js copies
\* needsMoreThoughts, index.ts copies gameComponent and libraryUsed; a
\* property the entry file does not copy reads as undefined.
Copied(i) ==
  {"thought", "thoughtNumber", "totalThoughts", "nextThoughtNeeded",
   "isRevision", "revisesThought", "branchFromThought", "branchId"}
  \cup (IF i = "index.ts" THEN {"gameComponent", "libraryUsed"}
                          ELSE {"needsMoreThoughts"})

Returned(value) == [threw |-> FALSE, message |-> "", value |-> value]
Thrown(msg) == [threw |-> TRUE, message |-> msg, value |-> NoFields]

\* validateGameThoughtData with the totalThoughts check moved ahead of the
\* thoughtNumber check
validateTotalThoughtsFirst(i, input) ==
  IF ~CanRead(input)
  THEN Thrown(IF input.t = "null" THEN MsgReadOfNull ELSE MsgReadOfUndefined)
  ELSE IF ~Truthy(Get(input, "thought")) \/ Typeof(Get(input, "thought")) # "string"
  THEN Thrown(MsgThought(i))
  ELSE IF ~Truthy(Get(input, "totalThoughts"))
          \/ Typeof(Get(input, "totalThoughts")) # "number"
  THEN Thrown(MsgTotalThoughts)
  ELSE IF ~Truthy(Get(input, "thoughtNumber"))
          \/ Typeof(Get(input, "thoughtNumber")) # "number"
  THEN Thrown(MsgThoughtNumber)
  ELSE IF Typeof(Get(input, "nextThoughtNeeded")) # "boolean"
  THEN Thrown(MsgNextThoughtNeeded)
  ELSE Returned([f \in FieldNames |->
                  IF f \in Copied(i) THEN Get(input, f) ELSE Undefined])

\* validateGameThoughtData testing the two numbers by typeof alone
validateNumbersByTypeof(i, input) ==
  IF ~CanRead(input)
  THEN Thrown(IF input.t = "null" THEN MsgReadOfNull ELSE MsgReadOfUndefined)
  ELSE IF ~Truthy(Get(input, "thought")) \/ Typeof(Get(input, "thought")) # "string"
  THEN Thrown(MsgThought(i))
  ELSE IF Typeof(Get(input, "thoughtNumber")) # "number"
  THEN Thrown(MsgThoughtNumber)
  ELSE IF Typeof(Get(input, "totalThoughts")) # "number"
  THEN Thrown(MsgTotalThoughts)
  ELSE IF Typeof(Get(input, "nextThoughtNeeded")) # "boolean"
  THEN Thrown(MsgNextThoughtNeeded)
  ELSE Returned([f \in FieldNames |->
                  IF f \in Copied(i) THEN Get(input, f) ELSE Undefined])

\* validateGameThoughtData testing nextThoughtNeeded the way it tests the
\* other three fields
validateNextThoughtTruthy(i, input) ==
  IF ~CanRead(input)
  THEN Thrown(IF input.t = "null" THEN MsgReadOfNull ELSE MsgReadOfUndefined)
  ELSE IF ~Truthy(Get(input, "thought")) \/ Typeof(Get(input, "thought")) # "string"
  THEN Thrown(MsgThought(i))
  ELSE IF ~Truthy(Get(input, "thoughtNumber"))
          \/ Typeof(Get(input, "thoughtNumber")) # "number"
  THEN Thrown(MsgThoughtNumber)
  ELSE IF ~Truthy(Get(input, "totalThoughts"))
          \/ Typeof(Get(input, "totalThoughts")) # "number"
  THEN Thrown(MsgTotalThoughts)
  ELSE IF ~Truthy(Get(input, "nextThoughtNeeded"))
          \/ Typeof(Get(input, "nextThoughtNeeded")) # "boolean"
  THEN Thrown(MsgNextThoughtNeeded)
  ELSE Returned([f \in FieldNames |->
                  IF f \in Copied(i) THEN Get(input, f) ELSE Undefined])

validateGameThoughtData(i, input) ==
  IF ~CanRead(input)
  THEN Thrown(IF input.t = "null" THEN MsgReadOfNull ELSE MsgReadOfUndefined)
  ELSE IF ~Truthy(Get(input, "thought")) \/ Typeof(Get(input, "thought")) # "string"
  THEN Thrown(MsgThought(i))
  ELSE IF ~Truthy(Get(input, "thoughtNumber"))
          \/ Typeof(Get(input, "thoughtNumber")) # "number"
  THEN Thrown(MsgThoughtNumber)
  ELSE IF ~Truthy(Get(input, "totalThoughts"))
          \/ Typeof(Get(input, "totalThoughts")) # "number"
  THEN Thrown(MsgTotalThoughts)
  ELSE IF Typeof(Get(input, "nextThoughtNeeded")) # "boolean"
  THEN Thrown(MsgNextThoughtNeeded)
  ELSE Returned([f \in FieldNames |->
                  IF f \in Copied(i) THEN Get(input, f) ELSE Undefined])

-----------------------------------------------------------------------------
(* processGameThought, step by step                                          *)

\* Normalize without the bump
NormalizeNever(v) == v

\* Normalize with the comparison turned round
NormalizeWhenBelow(v) ==
  IF v.thoughtNumber.n < v.totalThoughts.n
  THEN [v EXCEPT !.totalThoughts = v.thoughtNumber]
  ELSE v

\* if (thoughtNumber > totalThoughts) totalThoughts = thoughtNumber
\* (both are non-zero, non-NaN numbers once validation has passed)
Normalize(v) ==
  IF v.thoughtNumber.n > v.totalThoughts.n
  THEN [v EXCEPT !.totalThoughts = v.thoughtNumber]
  ELSE v

\* Property names every object literal inherits from Object.prototype: a read
\* of branches[k] for such a k finds a value that is truthy and has no push.
ObjectPrototypeKeys ==
  {"constructor", "__proto__", "hasOwnProperty", "isPrototypeOf",
   "propertyIsEnumerable", "toLocaleString", "toString", "valueOf",
   "__defineGetter__", "__defineSetter__", "__lookupGetter__", "__lookupSetter__"}

\* this.branches[key]: "array" for an own entry, "inherited" for a property of
\* the prototype, "undefined" otherwise
BranchLookup(br, key) ==
  IF key \in DOMAIN br THEN "array"
  ELSE IF key \in ObjectPrototypeKeys THEN "inherited"
  ELSE "undefined"

BranchesUnchanged(br) == [threw |-> FALSE, message |-> "", branches |-> br]

\* PushInto placing the record at the front of its branch
PushIntoFront(br, v) ==
  LET key == ToPropertyKey(v.branchId)
      found == BranchLookup(br, key)
  IN CASE found = "array" ->
            [threw |-> FALSE, message |-> "",
             branches |-> [br EXCEPT ![key] = <<v>> \o br[key]]]
       [] found = "inherited" ->
            [threw |-> TRUE, message |-> MsgPushNotFunction, branches |-> br]
       [] OTHER ->
            [threw |-> FALSE, message |-> "",
             branches |-> [k \in DOMAIN br \cup {key} |->
                            IF k = key THEN <<v>> ELSE br[k]]]

\* if (!branches[id]) branches[id] = [];  branches[id].push(v)
PushInto(br, v) ==
  LET key == ToPropertyKey(v.branchId)
      found == BranchLookup(br, key)
  IN CASE found = "array" ->
            [threw |-> FALSE, message |-> "",
             branches |-> [br EXCEPT ![key] = Append(br[key], v)]]
       [] found = "inherited" ->
            [threw |-> TRUE, message |-> MsgPushNotFunction, branches |-> br]
       [] OTHER ->
            [threw |-> FALSE, message |-> "",
             branches |-> [k \in DOMAIN br \cup {key} |->
                            IF k = key THEN <<v>> ELSE br[k]]]

\* PushBranch testing branchId alone
PushBranchOnIdAlone(br, v) ==
  IF Truthy(v.branchId) THEN PushInto(br, v) ELSE BranchesUnchanged(br)

\* if (branchFromThought && branchId) { ... }
PushBranch(br, v) ==
  IF Truthy(v.branchFromThought) /\ Truthy(v.branchId)
  THEN PushInto(br, v)
  ELSE BranchesUnchanged(br)

\* formatGameThought: the category label of the header it renders
LabelRevision(i) == IF i = "index.ts" THEN "Revision" ELSE "Rule Tweak"
LabelBranch(i) == IF i = "index.ts" THEN "Branch" ELSE "Strategy Shift"
LabelPlain(i) == IF i = "index.ts" THEN "Design" ELSE "Game Idea"

\* formatGameThought testing branchFromThought before isRevision
formatGameThoughtBranchFirst(i, v) ==
  IF Truthy(v.branchFromThought) THEN LabelBranch(i)
  ELSE IF Truthy(v.isRevision) THEN LabelRevision(i)
  ELSE LabelPlain(i)

formatGameThought(i, v) ==
  IF Truthy(v.isRevision) THEN LabelRevision(i)
  ELSE IF Truthy(v.branchFromThought) THEN LabelBranch(i)
  ELSE LabelPlain(i)

\* The text of a content block: the JSON document it spells (keys is the set
\* of keys present: JSON.stringify drops a key whose value is undefined), or a
\* plain string.
NoText ==
  [kind |-> "plain", s |-> "", keys |-> {}, error |-> "", status |-> "",
   thoughtNumber |-> Undefined, totalThoughts |-> Undefined,
   nextThoughtNeeded |-> Undefined, gameComponent |-> Undefined,
   libraryUsed |-> Undefined, branches |-> {}, thoughtHistoryLength |-> 0]

SuccessText(i, v, hist, br) ==
  [NoText EXCEPT
     !.kind = "json",
     !.keys = {"thoughtNumber", "totalThoughts", "nextThoughtNeeded", "branches",
               "thoughtHistoryLength"}
              \cup (IF i = "index.ts"
                    THEN {k \in {"gameComponent", "libraryUsed"} : v[k] # Undefined}
                    ELSE {}),
     !.thoughtNumber = v.thoughtNumber,
     !.totalThoughts = v.totalThoughts,
     !.nextThoughtNeeded = v.nextThoughtNeeded,
     !.gameComponent = IF i = "index.ts" THEN v.gameComponent ELSE Undefined,
     !.libraryUsed = IF i = "index.ts" THEN v.libraryUsed ELSE Undefined,
     !.branches = DOMAIN br,
     !.thoughtHistoryLength = Len(hist)]

FailureText(msg) ==
  [NoText EXCEPT !.kind = "json", !.keys = {"error", "status"},
                 !.error = msg, !.status = "failed"]

TextBlock(text) == [type |-> "text", text |-> text]

\* SuccessResponse reading the history length from before the push
SuccessResponseStaleLength(i, v, hist, br) ==
  [content |-> <<TextBlock(SuccessText(i, v, SubSeq(hist, 1, Len(hist) - 1), br))>>,
   isError |-> Undefined]

SuccessResponse(i, v, hist, br) ==
  [content |-> <<TextBlock(SuccessText(i, v, hist, br))>>, isError |-> Undefined]

FailureResponse(msg) ==
  [content |-> <<TextBlock(FailureText(msg))>>, isError |-> Bool(TRUE)]

NoResponse == [content |-> <<>>, isError |-> Undefined]

\* What a call leaves behind: the response it returned, or the exception that
\* escaped it, the tracker's state, and what it wrote to stderr ("" = nothing).
Outcome(threw, msg, response, hist, br, err) ==
  [threw |-> threw, message |-> msg, response |-> response,
   thoughtHistory |-> hist, branches |-> br, stderr |-> err]

\* a catch that answers the validation errors and rethrows every other error
CatchValidationErrorsOnly(msg, hist, br) ==
  IF msg \in {MsgReadOfUndefined, MsgReadOfNull, MsgPushNotFunction}
  THEN Outcome(TRUE, msg, NoResponse, hist, br, "")
  ELSE Outcome(FALSE, "", FailureResponse(msg), hist, br, "")

\* catch (error) { return { content: [...error.message...], isError: true } }
Catch(msg, hist, br) == Outcome(FALSE, "", FailureResponse(msg), hist, br, "")

\* processGameThought refusing a record that revises or branches from a
\* thought History does not hold
processGameThoughtCrossChecked(i, hist, br, input) ==
  LET validated == validateGameThoughtData(i, input)
  IN IF validated.threw
     THEN Catch(validated.message, hist, br)
     ELSE LET validatedInput == Normalize(validated.value)
              named == {validatedInput.revisesThought, validatedInput.branchFromThought}
                         \ {Undefined}
              pushed == Append(hist, validatedInput)
              branched == PushBranch(br, validatedInput)
          IN IF \E n \in named : \A k \in 1..Len(hist) : hist[k].thoughtNumber # n
             THEN Catch("Referenced thought not found", hist, br)
             ELSE IF branched.threw
             THEN Catch(branched.message, pushed, br)
             ELSE Outcome(FALSE, "",
                          SuccessResponse(i, validatedInput, pushed, branched.branches),
                          pushed, branched.branches,
                          formatGameThought(i, validatedInput))

\* processGameThought refusing every call once a stored record has
\* nextThoughtNeeded = false
processGameThoughtClosing(i, hist, br, input) ==
  LET validated == validateGameThoughtData(i, input)
  IN IF \E k \in 1..Len(hist) : hist[k].nextThoughtNeeded = Bool(FALSE)
     THEN Catch("Thinking is complete", hist, br)
     ELSE IF validated.threw
     THEN Catch(validated.message, hist, br)
     ELSE LET validatedInput == Normalize(validated.value)
              pushed == Append(hist, validatedInput)
              branched == PushBranch(br, validatedInput)
          IN IF branched.threw
             THEN Catch(branched.message, pushed, br)
             ELSE Outcome(FALSE, "",
                          SuccessResponse(i, validatedInput, pushed, branched.branches),
                          pushed, branched.branches,
                          formatGameThought(i, validatedInput))

\* processGameThought raising totalThoughts to the largest totalThoughts
\* History holds
processGameThoughtCarrying(i, hist, br, input) ==
  LET validated == validateGameThoughtData(i, input)
  IN IF validated.threw
     THEN Catch(validated.message, hist, br)
     ELSE LET own == Normalize(validated.value)
              larger == {k \in 1..Len(hist) :
                           /\ hist[k].totalThoughts.n > own.totalThoughts.n
                           /\ \A j \in 1..Len(hist) :
                                hist[j].totalThoughts.n <= hist[k].totalThoughts.n}
              validatedInput ==
                IF larger = {} THEN own
                ELSE [own EXCEPT !.totalThoughts = hist[CHOOSE k \in larger : TRUE].totalThoughts]
              pushed == Append(hist, validatedInput)
              branched == PushBranch(br, validatedInput)
          IN IF branched.threw
             THEN Catch(branched.message, pushed, br)
             ELSE Outcome(FALSE, "",
                          SuccessResponse(i, validatedInput, pushed, branched.branches),
                          pushed, branched.branches,
                          formatGameThought(i, validatedInput))

processGameThought(i, hist, br, input) ==
  LET validated == validateGameThoughtData(i, input)
  IN IF validated.threw
     THEN Catch(validated.message, hist, br)
     ELSE LET validatedInput == Normalize(validated.value)
              pushed == Append(hist, validatedInput)
              branched == PushBranch(br, validatedInput)
          IN IF branched.threw
             THEN Catch(branched.message, pushed, br)
             ELSE Outcome(FALSE, "",
                          SuccessResponse(i, validatedInput, pushed, branched.branches),
                          pushed, branched.branches,
                          formatGameThought(i, validatedInput))

\* server.setRequestHandler(CallToolRequestSchema, ...)
UnknownToolResponse(name) ==
  [content |-> <<TextBlock([NoText EXCEPT !.s = "Unknown tool: " \o name])>>,
   isError |-> Bool(TRUE)]

\* the handler without the test of the operation name
CallToolHandlerAnyName(i, hist, br, name, arguments) ==
  processGameThought(i, hist, br, arguments)

CallToolHandler(i, hist, br, name, arguments) ==
  IF name = ToolName(i)
  THEN processGameThought(i, hist, br, arguments)
  ELSE Outcome(FALSE, "", UnknownToolResponse(name), hist, br, "")

-----------------------------------------------------------------------------
(* What callers submit                                                       *)

Thought == Str("Add jump mechanic")

\* numbers a caller claims: negative, zero, and both sides of the comparison
Numbers == {Num(-1), Num(0), Num(1), Num(2)}

Revision == Opt(Bool(TRUE), Num(1), Undefined, Undefined, Undefined, Undefined, Undefined)
BranchOf(from, id) == Opt(Undefined, Undefined, from, id, Undefined, Undefined, Undefined)

Options ==
  { NoOpt,
    Revision,
    BranchOf(Num(1), Str("controls-alt")),
    BranchOf(Num(2), Str("controls-alt")),
    BranchOf(Num(1), Str("physics-system")),
    BranchOf(Num(0), Str("controls-alt")),
    BranchOf(Num(1), Str("")),
    BranchOf(Undefined, Str("controls-alt")),
    BranchOf(Num(1), Num(7)),
    BranchOf(Num(1), Str("constructor")),
    BranchOf(Num(1), Str("__proto__")),
    Opt(Bool(TRUE), Num(1), Num(1), Str("controls-alt"), Undefined, Undefined, Undefined),
    Opt(Undefined, Undefined, Undefined, Undefined, Bool(TRUE), Str("physics"),
        Str("threejs")) }

\* arguments values that are no key/value structure
NonObjects == {NonObj("undefined"), NonObj("null"), NonObj("string"), NonObj("number")}

\* one payload per validation check, each failing only that check
OneBadField ==
  { Payload(Undefined, Num(1), Num(1), Bool(TRUE), NoOpt),
    Payload(Thought, Undefined, Num(1), Bool(TRUE), NoOpt),
    Payload(Thought, Num(1), Str("3"), Bool(TRUE), NoOpt),
    Payload(Thought, Num(1), Num(1), Undefined, NoOpt),
    Payload(Thought, Num(1), Num(1), Num(1), BranchOf(Num(1), Str("controls-alt"))) }

Payloads ==
  { Payload(Thought, tn, tt, Bool(TRUE), NoOpt) : tn \in Numbers, tt \in Numbers }
  \cup { Payload(Thought, Num(1), Num(1), Bool(FALSE), NoOpt) }
  \cup { Payload(Thought, Num(2), Num(1), Bool(TRUE), o) : o \in Options }
  \cup OneBadField
  \cup NonObjects

\* every combination of present, absent and ill-typed required fields
WidePayloads ==
  { Payload(th, tn, tt, ntn, NoOpt) :
      th \in {Undefined, Str(""), Num(5), Thought},
      tn \in {Undefined, Str("1"), Num(0), Num(-1)},
      tt \in {Undefined, NaN, Num(0), Num(1)},
      ntn \in {Undefined, Num(1), Num(0), Str("true"), Bool(TRUE), Bool(FALSE)} }
  \cup NonObjects

\* operation names a caller may ask for
OperationNames == {"gamethinking", "gamedesignthinking", "sequentialthinking"}

NoRequest == [made |-> FALSE, name |-> "", arguments |-> NonObj("undefined")]
NoResult == [threw |-> FALSE, message |-> "", response |-> NoResponse]

-----------------------------------------------------------------------------
(* The state machine                                                         *)

Init ==
  /\ impl \in Impls
  /\ thoughtHistory = <<>>
  /\ branches = <<>>
  /\ request = NoRequest
  /\ result = NoResult
  /\ stderr = ""
  /\ accepted = <<>>
  /\ successes = 0
  /\ pending = <<>>

IsErrorResponse(response) == response.isError = Bool(TRUE)

\* One tools/call request, handled to completion.  accepted and successes
\* only observe: accepted[k] tells whether the call that stored
\* thoughtHistory[k] answered without isError, successes counts the calls
\* that did.
CallTool(name, arguments) ==
  /\ Len(thoughtHistory) < MaxHistory
  /\ LET out == CallToolHandler(impl, thoughtHistory, branches, name, arguments)
     IN /\ thoughtHistory' = out.thoughtHistory
        /\ branches' = out.branches
        /\ stderr' = out.stderr
        /\ result' = [threw |-> out.threw, message |-> out.message,
                      response |-> out.response]
        /\ accepted' = IF Len(out.thoughtHistory) > Len(thoughtHistory)
                       THEN Append(accepted,
                                   ~out.threw /\ ~IsErrorResponse(out.response))
                       ELSE accepted
        /\ successes' = IF ~out.threw /\ ~IsErrorResponse(out.response)
                        THEN successes + 1
                        ELSE successes
  /\ request' = [made |-> TRUE, name |-> name, arguments |-> arguments]
  /\ UNCHANGED impl

CallRegisteredTool ==
  /\ pending = <<>>
  /\ \E arguments \in Payloads : CallTool(ToolName(impl), arguments)
  /\ UNCHANGED pending

CallUnknownTool ==
  /\ pending = <<>>
  /\ \E name \in OperationNames \ {ToolName(impl)} :
       \E arguments \in {Payload(Thought, Num(1), Num(1), Bool(TRUE), NoOpt),
                         NonObj("undefined")} :
         CallTool(name, arguments)
  /\ UNCHANGED pending

Next == CallRegisteredTool \/ CallUnknownTool

Spec == Init /\ [][Next]_vars

\* The validator alone, over every combination of required-field violations.
ValidateAny ==
  /\ pending = <<>>
  /\ \E arguments \in WidePayloads : CallTool(ToolName(impl), arguments)
  /\ UNCHANGED pending

NextValidation == ValidateAny

SpecValidation == Init /\ [][NextValidation]_vars

\* Several invocations at the transport at once.  The transport hands them
\* to the handler in arrival order, and the handler, which awaits nothing,
\* runs each to its return before the next starts.
Invocations(i) ==
  { [name |-> ToolName(i),
     arguments |-> Payload(Thought, Num(1), Num(1), Bool(TRUE), NoOpt)],
    [name |-> ToolName(i),
     arguments |-> Payload(Thought, Num(2), Num(1), Bool(FALSE),
                           BranchOf(Num(1), Str("controls-alt")))],
    [name |-> ToolName(i),
     arguments |-> Payload(Thought, Num(1), Num(2), Bool(TRUE),
                           BranchOf(Num(1), Str("constructor")))],
    [name |-> ToolName(i),
     arguments |-> Payload(Undefined, Num(1), Num(1), Bool(TRUE), NoOpt)],
    [name |-> "sequentialthinking",
     arguments |-> Payload(Thought, Num(1), Num(1), Bool(TRUE), NoOpt)] }

Receive ==
  /\ Len(pending) < MaxPending
  /\ \E invocation \in Invocations(impl) : pending' = Append(pending, invocation)
  /\ UNCHANGED <<impl, thoughtHistory, branches, request, result, stderr, accepted,
                 successes>>

HandleNext ==
  /\ pending # <<>>
  /\ CallTool(Head(pending).name, Head(pending).arguments)
  /\ pending' = Tail(pending)

NextPending == Receive \/ HandleNext

SpecPending == Init /\ [][NextPending]_vars

-----------------------------------------------------------------------------
(* Properties                                                                *)

Registered == request.made /\ request.name = ToolName(impl)
Block == result.response.content[1]
Succeeded == request.made /\ ~result.threw /\ ~IsErrorResponse(result.response)
Present(v) == v # Undefined

\* C1 (P1 append-only): History holds exactly one entry per successful call,
\* and a call never alters, moves or removes an entry stored before it.
C1_AppendOnly ==
  [][/\ Len(thoughtHistory') = successes'
     /\ Len(thoughtHistory') >= Len(thoughtHistory)
     /\ SubSeq(thoughtHistory', 1, Len(thoughtHistory)) = thoughtHistory]_vars

\* C2 (no partial-failure state): a call of the tool that answers with isError
\* true leaves History and BranchIndex exactly as they were before the call.
C2_FailureLeavesStateUnchanged ==
  [][(request'.name = ToolName(impl) /\ IsErrorResponse(result'.response))
       => (thoughtHistory' = thoughtHistory /\ branches' = branches)]_vars

\* record r is one of the records of the branch sequence named id
InBranch(id, r) ==
  id \in DOMAIN branches /\ \E j \in 1..Len(branches[id]) : branches[id][j] = r

BranchIds ==
  DOMAIN branches \cup ObjectPrototypeKeys
  \cup {ToPropertyKey(thoughtHistory[k].branchId) : k \in 1..Len(thoughtHistory)}
  \cup {thoughtHistory[k].branchId.s : k \in 1..Len(thoughtHistory)}

EveryBranchRecordInHistory ==
  \A id \in DOMAIN branches : \A j \in 1..Len(branches[id]) :
    \E k \in 1..Len(thoughtHistory) : thoughtHistory[k] = branches[id][j]

\* C3 (P3 branch membership) as stated: a record is in BranchIndex[id] iff it
\* was accepted and was submitted with branchFromThought present and branchId
\* equal to id; every such record is also in History.
C3_MembershipByPresence ==
  /\ \A k \in 1..Len(thoughtHistory) : \A id \in BranchIds :
       InBranch(id, thoughtHistory[k])
         <=> /\ accepted[k]
             /\ Present(thoughtHistory[k].branchFromThought)
             /\ thoughtHistory[k].branchId = Str(id)
  /\ EveryBranchRecordInHistory

\* C3 amended: a record is in BranchIndex[id] iff its call succeeded and it
\* was submitted with a truthy branchFromThought and a truthy branchId whose
\* property key is id; every record of a branch is also in History.
C3_MembershipByTruthiness ==
  /\ \A k \in 1..Len(thoughtHistory) : \A id \in BranchIds :
       InBranch(id, thoughtHistory[k])
         <=> /\ accepted[k]
             /\ Truthy(thoughtHistory[k].branchFromThought)
             /\ Truthy(thoughtHistory[k].branchId)
             /\ ToPropertyKey(thoughtHistory[k].branchId) = id
  /\ EveryBranchRecordInHistory

\* a branch record and, beside it in History, a record that named a branch
\* with a falsy branchFromThought and so is in no branch
C3_Witness ==
  /\ Len(thoughtHistory) = 2
  /\ InBranch("controls-alt", thoughtHistory[1])
  /\ thoughtHistory[2].branchFromThought = Num(0)
  /\ thoughtHistory[2].branchId = Str("controls-alt")
  /\ accepted[2]
  /\ ~InBranch("controls-alt", thoughtHistory[2])


\* The four required-field checks, in the order the claim gives them: 0 when
\* none fails, else the number of the first that does.
FailsCheck(n, a) ==
  CASE n = 1 -> ~(Get(a, "thought").t = "string" /\ Get(a, "thought").s # "")
    [] n = 2 -> ~(Get(a, "thoughtNumber").t = "number" /\ Get(a, "thoughtNumber").n # 0)
    [] n = 3 -> ~(Get(a, "totalThoughts").t = "number" /\ Get(a, "totalThoughts").n # 0)
    [] OTHER -> Get(a, "nextThoughtNeeded").t # "boolean"

FirstViolated(a) ==
  IF \E n \in 1..4 : FailsCheck(n, a)
  THEN CHOOSE n \in 1..4 : FailsCheck(n, a) /\ \A m \in 1..(n - 1) : ~FailsCheck(m, a)
  ELSE 0

SpecMessage(n) ==
  CASE n = 1 -> "Invalid thought: must be a string"
    [] n = 2 -> "Invalid thoughtNumber: must be a number"
    [] n = 3 -> "Invalid totalThoughts: must be a number"
    [] OTHER -> "Invalid nextThoughtNeeded: must be a boolean"

\* as SpecMessage, but index.ts words the first message differently
FileMessage(i, n) ==
  IF n = 1 /\ i = "index.ts"
  THEN "Invalid thought: must be a string describing game design decision"
  ELSE SpecMessage(n)

\* C4 (P4 validation order and messages) as stated: a payload violating one or
\* more of the four checks is answered with isError true and exactly the
\* spec's message of the first violated check; History keeps its length.
C4_FirstViolationSpecMessage ==
  [][LET a == request'.arguments
     IN (request'.name = ToolName(impl) /\ CanRead(a) /\ FirstViolated(a) # 0)
          => /\ IsErrorResponse(result'.response)
             /\ result'.response.content[1].text.error = SpecMessage(FirstViolated(a))
             /\ Len(thoughtHistory') = Len(thoughtHistory)]_vars

\* C4 amended: the checks run in the order thought, thoughtNumber,
\* totalThoughts, nextThoughtNeeded; a payload violating one or more of them is
\* answered with isError true and exactly the message of the first violated
\* check, which for thought is "Invalid thought: must be a string" in index.js
\* and "Invalid thought: must be a string describing game design decision" in
\* index.ts; History keeps its length.
C4_FirstViolationFileMessage ==
  [][LET a == request'.arguments
     IN (request'.name = ToolName(impl) /\ CanRead(a) /\ FirstViolated(a) # 0)
          => /\ IsErrorResponse(result'.response)
             /\ result'.response.content[1].text.error
                  = FileMessage(impl, FirstViolated(a))
             /\ Len(thoughtHistory') = Len(thoughtHistory)]_vars

\* a payload violating the second, third and fourth check at once, answered
\* with the second check's message while History holds a record
C4_Witness ==
  /\ Registered
  /\ Len(thoughtHistory) = 1
  /\ \A n \in 2..4 : FailsCheck(n, request.arguments)
  /\ FirstViolated(request.arguments) = 2
  /\ IsErrorResponse(result.response)
  /\ Block.text.error = "Invalid thoughtNumber: must be a number"

\* C5 (P2 normalization): a call that stores a record stores it with
\* totalThoughts = thoughtNumber when the submitted thoughtNumber exceeds the
\* submitted totalThoughts and with the submitted totalThoughts otherwise, and
\* with the submitted thoughtNumber; a successful call returns the same two
\* numbers.
C5_Normalization ==
  [][Len(thoughtHistory') > Len(thoughtHistory)
       => LET tn == Get(request'.arguments, "thoughtNumber")
              tt == Get(request'.arguments, "totalThoughts")
              stored == thoughtHistory'[Len(thoughtHistory')]
              text == result'.response.content[1].text
              expected == IF tn.n > tt.n THEN tn ELSE tt
          IN /\ stored.thoughtNumber = tn
             /\ stored.totalThoughts = expected
             /\ ~IsErrorResponse(result'.response)
                  => text.thoughtNumber = tn /\ text.totalThoughts = expected]_vars

\* a successful call whose thoughtNumber exceeded its totalThoughts
C5_Witness ==
  /\ Succeeded
  /\ Get(request.arguments, "thoughtNumber") = Num(2)
  /\ Get(request.arguments, "totalThoughts") = Num(-1)
  /\ Block.text.totalThoughts = Num(2)
  /\ thoughtHistory[Len(thoughtHistory)].totalThoughts = Num(2)

\* C6 (single error kind): whatever the arguments value, a failing call of the
\* tool reports one of the four required-field validation messages.
C6_OnlyValidationMessages ==
  (Registered /\ IsErrorResponse(result.response))
    => Block.text.error \in {FileMessage(impl, n) : n \in 1..4}

\* C7 (success response projection): a successful call returns no error
\* marker and no isError flag, thoughtHistoryLength = length of History and
\* branches = key set of BranchIndex, both as they are after the call; isError
\* is present, and true, exactly on the failing calls.
C7_SuccessProjection ==
  request.made
    => LET text == Block.text
           failing == text.kind = "plain" \/ "error" \in text.keys
       IN /\ failing <=> result.response.isError = Bool(TRUE)
          /\ ~failing
               => /\ result.response.isError = Undefined
                  /\ "status" \notin text.keys
                  /\ {"thoughtHistoryLength", "branches"} \subseteq text.keys
                  /\ text.thoughtHistoryLength = Len(thoughtHistory)
                  /\ text.branches = DOMAIN branches
                  /\ successes > 0

\* a second successful call, reporting two branches
C7_Witness ==
  /\ Succeeded
  /\ Block.text.thoughtHistoryLength = 2
  /\ Block.text.branches = {"controls-alt", "physics-system"}

\* C8 (no throw past the boundary): every call of the tool returns a response
\* whose content is exactly one text block, with isError true when it failed;
\* no exception reaches the caller.
C8_AlwaysAResponse ==
  Registered
    => /\ ~result.threw
       /\ Len(result.response.content) = 1
       /\ Block.type = "text"
       /\ result.response.isError \in {Undefined, Bool(TRUE)}
       /\ Block.text.kind = "json"
       /\ ("error" \in Block.text.keys) => result.response.isError = Bool(TRUE)
       /\ (thoughtHistory = <<>>) => result.response.isError = Bool(TRUE)

\* the arguments value was absent: the read of data.thought threw, and the
\* caller still got a failure response
C8_Witness ==
  /\ Registered
  /\ request.arguments.t = "undefined"
  /\ ~result.threw
  /\ Block.text.error = MsgReadOfUndefined
  /\ result.response.isError = Bool(TRUE)

ValidPlain == Payload(Thought, Num(1), Num(1), Bool(TRUE), NoOpt)

\* C9 (unknown operation): a call naming any other operation is answered with
\* isError true and a text naming that operation, stores nothing, writes
\* nothing to stderr, and leaves the tracker able to accept the next valid
\* call of the tool.
C9_UnknownOperation ==
  [][request'.name # ToolName(impl)
       => /\ ~result'.threw
          /\ result'.response.isError = Bool(TRUE)
          /\ Len(result'.response.content) = 1
          /\ result'.response.content[1].text.kind = "plain"
          /\ result'.response.content[1].text.s = "Unknown tool: " \o request'.name
          /\ thoughtHistory' = thoughtHistory
          /\ branches' = branches
          /\ successes' = successes
          /\ stderr' = ""
          /\ ~IsErrorResponse(
                processGameThought(impl, thoughtHistory', branches', ValidPlain).response)
    ]_vars

\* the other entry file's tool name was asked for, after a record was stored
C9_Witness ==
  /\ request.made
  /\ request.name \in {"gamethinking", "gamedesignthinking"} \ {ToolName(impl)}
  /\ Len(thoughtHistory) = 1
  /\ result.response.isError = Bool(TRUE)
  /\ request.arguments = ValidPlain

RecordOrdered(r) ==
  /\ r.thoughtNumber.t = "number"
  /\ r.totalThoughts.t = "number"
  /\ r.totalThoughts.n >= r.thoughtNumber.n

\* C10 (stored-record invariant): every record of History and of every branch
\* sequence has totalThoughts >= thoughtNumber.
C10_TotalAtLeastNumber ==
  /\ \A k \in 1..Len(thoughtHistory) : RecordOrdered(thoughtHistory[k])
  /\ \A id \in DOMAIN branches : \A j \in 1..Len(branches[id]) :
       RecordOrdered(branches[id][j])

\* a branch record submitted with thoughtNumber 2 and totalThoughts 1
C10_Witness ==
  /\ Succeeded
  /\ Get(request.arguments, "thoughtNumber") = Num(2)
  /\ Get(request.arguments, "totalThoughts") = Num(1)
  /\ InBranch("physics-system", thoughtHistory[Len(thoughtHistory)])
  /\ thoughtHistory[Len(thoughtHistory)].totalThoughts = Num(2)

Positive(v) == v.t = "number" /\ v.n >= 1

\* C11 (data-model typing): every record stored in History has a
\* thoughtNumber and a totalThoughts that are positive integers (>= 1).
C11_StoredNumbersPositive ==
  \A k \in 1..Len(thoughtHistory) :
    Positive(thoughtHistory[k].thoughtNumber) /\ Positive(thoughtHistory[k].totalThoughts)

ValidThought(a) == Get(a, "thought").t = "string" /\ Get(a, "thought").s # ""
Numeric(v) == v.t = "number"
NonZeroNumber(v) == v.t = "number" /\ v.n # 0
ErrorOf(res) == res.response.content[1].text.error

\* C12 (numeric-presence rule) as stated: with a valid thought the call fails
\* with the thoughtNumber message iff thoughtNumber is absent or not numeric,
\* and with valid thought and thoughtNumber it fails with the totalThoughts
\* message iff totalThoughts is absent or not numeric; 0 passes both checks.
C12_NumericPasses ==
  [][LET a == request'.arguments
         tn == Get(a, "thoughtNumber")
         tt == Get(a, "totalThoughts")
     IN (request'.name = ToolName(impl) /\ CanRead(a) /\ ValidThought(a))
          => /\ (IsErrorResponse(result'.response) /\ ErrorOf(result') = MsgThoughtNumber)
                  <=> ~Numeric(tn)
             /\ Numeric(tn)
                  => ((IsErrorResponse(result'.response)
                         /\ ErrorOf(result') = MsgTotalThoughts)
                        <=> ~Numeric(tt))]_vars

\* C12 amended: with a valid thought the call fails with the thoughtNumber
\* message iff thoughtNumber is absent, not of type number, or a falsy number
\* (0, NaN); with valid thought and thoughtNumber it fails with the
\* totalThoughts message iff totalThoughts is absent, not of type number, or a
\* falsy number; every other number, negative ones included, passes both.
C12_NonZeroNumberPasses ==
  [][LET a == request'.arguments
         tn == Get(a, "thoughtNumber")
         tt == Get(a, "totalThoughts")
     IN (request'.name = ToolName(impl) /\ CanRead(a) /\ ValidThought(a))
          => /\ (IsErrorResponse(result'.response) /\ ErrorOf(result') = MsgThoughtNumber)
                  <=> ~NonZeroNumber(tn)
             /\ NonZeroNumber(tn)
                  => ((IsErrorResponse(result'.response)
                         /\ ErrorOf(result') = MsgTotalThoughts)
                        <=> ~NonZeroNumber(tt))]_vars

\* thoughtNumber 0, with everything else valid, was refused as not a number
C12_Witness ==
  /\ Registered
  /\ ValidThought(request.arguments)
  /\ Get(request.arguments, "thoughtNumber") = Num(0)
  /\ Get(request.arguments, "totalThoughts") = Num(1)
  /\ Get(request.arguments, "nextThoughtNeeded") = Bool(TRUE)
  /\ IsErrorResponse(result.response)
  /\ Block.text.error = "Invalid thoughtNumber: must be a number"

OtherThreeValid(a) ==
  /\ ValidThought(a)
  /\ NonZeroNumber(Get(a, "thoughtNumber"))
  /\ NonZeroNumber(Get(a, "totalThoughts"))

\* C13 (strict boolean rule): with the other three required fields valid, the
\* call is accepted for nextThoughtNeeded false as for true, and refused with
\* the nextThoughtNeeded message for an absent value and for every value that
\* is no boolean, truthy or falsy.
C13_StrictBoolean ==
  [][LET a == request'.arguments
         ntn == Get(a, "nextThoughtNeeded")
     IN (request'.name = ToolName(impl) /\ CanRead(a) /\ OtherThreeValid(a))
          => IF ntn \in {Bool(TRUE), Bool(FALSE)}
             THEN /\ ~IsErrorResponse(result'.response)
                  /\ Len(thoughtHistory') = Len(thoughtHistory) + 1
                  /\ thoughtHistory'[Len(thoughtHistory')].nextThoughtNeeded = ntn
                  /\ result'.response.content[1].text.nextThoughtNeeded = ntn
             ELSE /\ IsErrorResponse(result'.response)
                  /\ ErrorOf(result') = "Invalid nextThoughtNeeded: must be a boolean"
                  /\ thoughtHistory' = thoughtHistory]_vars

\* a call with nextThoughtNeeded false was accepted, and after it a call with
\* nextThoughtNeeded 0 was refused
C13_Witness ==
  /\ Registered
  /\ Len(thoughtHistory) = 1
  /\ thoughtHistory[1].nextThoughtNeeded = Bool(FALSE)
  /\ OtherThreeValid(request.arguments)
  /\ Get(request.arguments, "nextThoughtNeeded") = Num(0)
  /\ Block.text.error = "Invalid nextThoughtNeeded: must be a boolean"

\* C14 (branch creation on first use): for every non-empty string id, names
\* of Object.prototype properties included, the first otherwise-valid call
\* carrying branchFromThought and branchId = id succeeds, creates
\* BranchIndex[id] holding exactly that record, and reports id in branches.
C14_BranchCreatedOnFirstUse ==
  [][LET a == request'.arguments
         id == Get(a, "branchId")
         from == Get(a, "branchFromThought")
     IN (/\ request'.name = ToolName(impl)
         /\ CanRead(a)
         /\ FirstViolated(a) = 0
         /\ from.t = "number" /\ from.n >= 1
         /\ id.t = "string" /\ id.s # ""
         /\ id.s \notin DOMAIN branches)
          => /\ ~IsErrorResponse(result'.response)
             /\ id.s \in DOMAIN branches'
             /\ branches'[id.s] = <<thoughtHistory'[Len(thoughtHistory')]>>
             /\ id.s \in result'.response.content[1].text.branches]_vars

\* b is a subsequence of h: its records appear in h in the same order, each
\* at a place of its own
IsSubsequence(b, h) ==
  \E at \in [1..Len(b) -> 1..Len(h)] :
    /\ \A j \in 1..Len(b) : h[at[j]] = b[j]
    /\ \A j, m \in 1..Len(b) : j < m => at[j] < at[m]

\* the places of History whose record was filed under id
FiledUnder(id) ==
  {k \in 1..Len(thoughtHistory) :
     /\ accepted[k]
     /\ Truthy(thoughtHistory[k].branchFromThought)
     /\ Truthy(thoughtHistory[k].branchId)
     /\ ToPropertyKey(thoughtHistory[k].branchId) = id}

\* C15 (branch sequences are ordered views of History): every BranchIndex[id]
\* is a subsequence of History holding each record filed under id once,
\* whatever branchFromThought the records named.
C15_BranchesAreSubsequences ==
  \A id \in DOMAIN branches :
    /\ IsSubsequence(branches[id], thoughtHistory)
    /\ Len(branches[id]) = Cardinality(FiledUnder(id))
    /\ Len(branches[id]) >= 1

\* two records of one branch that branch from different thoughts
C15_Witness ==
  /\ "controls-alt" \in DOMAIN branches
  /\ Len(branches["controls-alt"]) = 2
  /\ branches["controls-alt"][1].branchFromThought = Num(2)
  /\ branches["controls-alt"][2].branchFromThought = Num(1)
  /\ thoughtHistory = branches["controls-alt"]

\* C16 (run-to-completion atomicity): with several invocations waiting, each
\* is handled in one step that takes it from the queue, applies its whole
\* effect and returns its response; the k-th successful call returns
\* thoughtHistoryLength k, so the lengths returned are 1..N without a
\* duplicate or a gap.
C16_RunToCompletion ==
  [][Len(pending') < Len(pending)
       => /\ pending' = Tail(pending)
          /\ request'.name = Head(pending).name
          /\ request'.arguments = Head(pending).arguments
          /\ ~IsErrorResponse(result'.response)
               => /\ successes' = successes + 1
                  /\ result'.response.content[1].text.thoughtHistoryLength = successes'
    ]_vars

\* the numbers of the earlier thoughts a record names: the one it revises and
\* the one it branches from
NamedThoughts(r) ==
  (IF r.isRevision = Bool(TRUE) /\ Positive(r.revisesThought)
   THEN {r.revisesThought.n} ELSE {})
  \cup (IF Positive(r.branchFromThought) THEN {r.branchFromThought.n} ELSE {})

Numbered(hist, ns) == {k \in 1..Len(hist) : hist[k].thoughtNumber.n \in ns}

LabelCategory(label) ==
  CASE label \in {"Rule Tweak", "Revision"} -> "revision"
    [] label \in {"Strategy Shift", "Branch"} -> "branch"
    [] label \in {"Game Idea", "Design"} -> "plain"
    [] OTHER -> "none"

\* C18 (formatter label precedence): the header rendered for a record carries
\* the revision label when the record's isRevision is set, the branch label
\* when it is not and branchFromThought is set, and the plain label otherwise;
\* only a successful call renders, and what it renders depends on the stored
\* record alone.
C18_LabelPrecedence ==
  [][request'.made
       => IF IsErrorResponse(result'.response)
          THEN stderr' = ""
          ELSE LET r == thoughtHistory'[Len(thoughtHistory')]
               IN LabelCategory(stderr') =
                    IF Truthy(r.isRevision) THEN "revision"
                    ELSE IF Truthy(r.branchFromThought) THEN "branch"
                    ELSE "plain"]_vars

\* a record that is both a revision and a branch was rendered as a revision
C18_Witness ==
  /\ Succeeded
  /\ thoughtHistory[Len(thoughtHistory)].isRevision = Bool(TRUE)
  /\ thoughtHistory[Len(thoughtHistory)].branchFromThought = Num(1)
  /\ InBranch("controls-alt", thoughtHistory[Len(thoughtHistory)])
  /\ LabelCategory(stderr) = "revision"

\* the same records with every nextThoughtNeeded put back to true
Reopened(hist) ==
  [k \in 1..Len(hist) |-> [hist[k] EXCEPT !.nextThoughtNeeded = Bool(TRUE)]]

Closed(hist) == \E k \in 1..Len(hist) : hist[k].nextThoughtNeeded = Bool(FALSE)

LastOf(hist) == IF hist = <<>> THEN NoFields ELSE hist[Len(hist)]

\* C19 (no terminal state): a record accepted with nextThoughtNeeded = false
\* closes nothing: every call is answered, appended and filed under its
\* branch exactly as it would be had every stored record asked for a next
\* thought, and in every reachable state a plain valid call is accepted.
C19_NoTerminalState ==
  /\ \A p \in Payloads :
       LET now == processGameThought(impl, thoughtHistory, branches, p)
           open == processGameThought(impl, Reopened(thoughtHistory),
                                      [id \in DOMAIN branches |-> Reopened(branches[id])], p)
       IN /\ now.threw = open.threw
          /\ now.response = open.response
          /\ now.stderr = open.stderr
          /\ Len(now.thoughtHistory) = Len(open.thoughtHistory)
          /\ LastOf(now.thoughtHistory) = LastOf(open.thoughtHistory)
               \/ Len(now.thoughtHistory) = Len(thoughtHistory)
          /\ DOMAIN now.branches = DOMAIN open.branches
          /\ \A id \in DOMAIN now.branches :
               /\ Len(now.branches[id]) = Len(open.branches[id])
               /\ LastOf(now.branches[id]) = LastOf(open.branches[id])
                    \/ Len(now.branches[id]) = Len(branches[id])
  /\ \A ntn \in {Bool(TRUE), Bool(FALSE)} :
       LET p == Payload(Thought, Num(1), Num(1), ntn, BranchOf(Num(1), Str("controls-alt")))
           now == processGameThought(impl, thoughtHistory, branches, p)
       IN /\ ~IsErrorResponse(now.response)
          /\ now.thoughtHistory = Append(thoughtHistory, LastOf(now.thoughtHistory))
          /\ "controls-alt" \in DOMAIN now.branches
          /\ LastOf(now.branches["controls-alt"]) = LastOf(now.thoughtHistory)
          /\ LastOf(now.thoughtHistory).nextThoughtNeeded = ntn
          /\ now.response.content[1].text.thoughtHistoryLength = Len(thoughtHistory) + 1

\* after a record that needed no next thought, a branch record was accepted
C19_Witness ==
  /\ Len(thoughtHistory) = 2
  /\ accepted = <<TRUE, TRUE>>
  /\ thoughtHistory[1].nextThoughtNeeded = Bool(FALSE)
  /\ Succeeded
  /\ Block.text.thoughtHistoryLength = 2
  /\ InBranch("controls-alt", thoughtHistory[2])

OwnTotal(a) ==
  IF Get(a, "thoughtNumber").n > Get(a, "totalThoughts").n
  THEN Get(a, "thoughtNumber") ELSE Get(a, "totalThoughts")

\* C20 (normalization is per record): the totalThoughts stored and returned
\* for a successful call is the larger of that call's own thoughtNumber and
\* totalThoughts, whatever History holds: the same call on an empty tracker
\* stores and returns the same number, and a larger totalThoughts stored for
\* an earlier record is not carried over.
C20_PerRecordNormalization ==
  /\ (Registered /\ Succeeded)
       => /\ Block.text.totalThoughts = OwnTotal(request.arguments)
          /\ thoughtHistory[Len(thoughtHistory)].totalThoughts
               = OwnTotal(request.arguments)
  /\ \A p \in Payloads :
       LET now == processGameThought(impl, thoughtHistory, branches, p)
           fresh == processGameThought(impl, <<>>, <<>>, p)
       IN /\ IsErrorResponse(now.response) = IsErrorResponse(fresh.response)
          /\ ~IsErrorResponse(now.response)
               => /\ now.response.content[1].text.totalThoughts
                       = fresh.response.content[1].text.totalThoughts
                  /\ LastOf(now.thoughtHistory).totalThoughts
                       = LastOf(fresh.thoughtHistory).totalThoughts

\* a success returning totalThoughts 1 right after a record stored with
\* totalThoughts 2
C20_Witness ==
  /\ Len(thoughtHistory) = 2
  /\ accepted = <<TRUE, TRUE>>
  /\ Succeeded
  /\ thoughtHistory[1].totalThoughts = Num(2)
  /\ Block.text.totalThoughts = Num(1)
  /\ thoughtHistory[2].totalThoughts = Num(1)

\* thoughtHistoryLength of the latest success response, 0 before the first:
\* a successful call pushes one entry and reports the length it then finds
LastReported(acc) ==
  IF \E k \in 1..Len(acc) : acc[k]
  THEN CHOOSE k \in 1..Len(acc) : acc[k] /\ \A j \in (k + 1)..Len(acc) : ~acc[j]
  ELSE 0

\* thoughtHistoryLength the next valid call of the tool reports
NextReported(i, hist, br) ==
  processGameThought(i, hist, br, ValidPlain).response.content[1].text.thoughtHistoryLength

\* the branch ids and the History length never go back
C21_StateMonotone ==
  [][/\ DOMAIN branches \subseteq DOMAIN branches'
     /\ Len(thoughtHistory') >= Len(thoughtHistory)
     /\ ~IsErrorResponse(result'.response)
          => /\ DOMAIN branches \subseteq result'.response.content[1].text.branches
             /\ result'.response.content[1].text.thoughtHistoryLength
                  = Len(thoughtHistory')]_vars

\* C21 (monotone observations): the set of branch ids never loses an element
\* and History never gets shorter; a success response reports every branch id
\* an earlier one reported; and whatever failing or unknown-tool calls come
\* in between, a success response reports a thoughtHistoryLength exactly one
\* above the one the success response before it reported.
C21_MonotoneObservations ==
  [][/\ DOMAIN branches \subseteq DOMAIN branches'
     /\ Len(thoughtHistory') >= Len(thoughtHistory)
     /\ ~IsErrorResponse(result'.response)
          => /\ DOMAIN branches \subseteq result'.response.content[1].text.branches
             /\ LastReported(accepted) > 0
                  => result'.response.content[1].text.thoughtHistoryLength
                       = LastReported(accepted) + 1
     /\ LastReported(accepted') > 0
          => NextReported(impl, thoughtHistory', branches')
               = LastReported(accepted') + 1]_vars

====
